---- MODULE Spec2Model ----
(***************************************************************************)
(* pgrepo: database provisioning (CreateDB / DropDB / EnsureDB), the       *)
(* connection-pool lifecycle of a Repository (New / Start / Stop /         *)
(* HealthCheck), the retrying availability probe (waitPing) and the        *)
(* resolution of settings from options.                                    *)
(*                                                                         *)
(* Durations are whole seconds; 0 stands for every duration below one      *)
(* second.  A connection URL is a record [kind, path]:                     *)
(*   kind "abs"     postgresql://host:port/<path>?...  (scheme and host)   *)
(*   kind "rel"     a string without scheme and host, e.g. "postgres"      *)
(*   kind "empty"   the empty string                                       *)
(*   kind "invalid" a string that url.Parse rejects                        *)
(* URLs hold no environment references, so os.ExpandEnv leaves them as     *)
(* they are; the password of a connection is the Password override or,     *)
(* without one, what pgx merges from the environment / password file.      *)
(***************************************************************************)
EXTENDS Integers, Sequences, FiniteSets, TLC

VARIABLES
    defaultSettings, \* package-level defaults: the pool object and the Databases map
    dbs,             \* server: the databases that exist
    up,              \* server: reachable
    pools,           \* every sql.DB opened so far:
                     \* <<[owner, kind, db, pw, maxOpen, open, conn, call]>>
    pc,              \* per client: position in the running call
    call,            \* per client: arguments and locals of the running call
    wp,              \* per client: locals of waitPing
    repo,            \* per client: its Repository (databaseSettings, db)
    hist,            \* per client: the results returned so far
    faults,          \* number of environment faults injected so far
    arg,             \* per client: the name and option list it calls with, and how often
    probe,           \* a settings value, an alias, and what one operation made of them
    defaultsMx       \* the lock of the package-level defaults: its holder, or 0

vars == <<defaultSettings, dbs, up, pools, pc, call, wp, repo, hist, faults, arg,
          probe, defaultsMx>>

----------------------------------------------------------------------------
(* Bounds of the model *)

MaxCalls == 4      \* calls one client makes in a run
MaxFaults == 1     \* environment faults (outage, driver failure) in a run
MaxOutageCalls == 1  \* calls one client makes in a run with server outages
MaxRaceCalls == 1  \* calls each of two concurrent clients makes

----------------------------------------------------------------------------
(* Program constants *)

DefaultDBAlias == "default"
DefaultLogLevel == "warn"
Second == 1
DefaultPingTimeout == 10

DefaultURL == [kind |-> "abs", path |-> "testdb"]
urlWithoutDB == [kind |-> "abs", path |-> ""]
EmptyURL == [kind |-> "empty", path |-> ""]
InvalidURL == [kind |-> "invalid", path |-> ""]

pgPassword == "postgres"
EnvPassword == "postgres"   \* what pgx finds in PGPASSWORD / the password file

\* the levels tracelog.LogLevelFromString accepts
LogLevels == {"trace", "debug", "info", "warn", "error", "none"}

----------------------------------------------------------------------------
(* Settings values *)

ZeroPool ==
    [MaxIdleConns |-> 0, MaxOpenConns |-> 0, PingTimeout |-> 0,
     LogLevel |-> "", Trace |-> FALSE]

\* a *poolSettings held by a databaseSettings: nil, the package-level pool
\* object (read through the pointer at each use), or an object of its own
NilPG == [ref |-> "nil", val |-> ZeroPool]
GlobalPG == [ref |-> "global", val |-> ZeroPool]
OwnPG(ps) == [ref |-> "own", val |-> ps]

ZeroDB == [URL |-> EmptyURL, User |-> "", Password |-> "", PGConfig |-> NilPG]

InitDefaultSettings ==
    [PGConfig |-> [MaxIdleConns |-> 2, MaxOpenConns |-> 0,
                   PingTimeout |-> DefaultPingTimeout,
                   LogLevel |-> DefaultLogLevel, Trace |-> FALSE],
     Databases |-> [a \in {DefaultDBAlias} |->
                      [URL |-> DefaultURL, User |-> "", Password |-> "",
                       PGConfig |-> NilPG]]]

MapSet(m, k, v) == [x \in (DOMAIN m) \cup {k} |-> IF x = k THEN v ELSE m[x]]

\* Go map read: the zero value for a missing key
MapGet(m, k) == IF k \in DOMAIN m THEN m[k] ELSE ZeroDB

----------------------------------------------------------------------------
(* Options.  An option is a record tagged by its constructor. *)

WithMaxIdleConns(n) == [t |-> "WithMaxIdleConns", n |-> n]
WithMaxOpenConns(n) == [t |-> "WithMaxOpenConns", n |-> n]
WithPingTimeout(d) == [t |-> "WithPingTimeout", n |-> d]
WithLogLevel(l) == [t |-> "WithLogLevel", s |-> l]
WithTracing(b) == [t |-> "WithTracing", b |-> b]

ApplyPoolOption(ps, o) ==
    CASE o.t = "WithMaxIdleConns" -> [ps EXCEPT !.MaxIdleConns = o.n]
      [] o.t = "WithMaxOpenConns" -> [ps EXCEPT !.MaxOpenConns = o.n]
      [] o.t = "WithPingTimeout" -> [ps EXCEPT !.PingTimeout = o.n]
      [] o.t = "WithLogLevel" -> [ps EXCEPT !.LogLevel = o.s]
      [] o.t = "WithTracing" -> [ps EXCEPT !.Trace = o.b]

RECURSIVE ApplyPoolOptions(_, _)
ApplyPoolOptions(ps, opts) ==
    IF opts = <<>> THEN ps
    ELSE ApplyPoolOptions(ApplyPoolOption(ps, Head(opts)), Tail(opts))

WithURL(u) == [t |-> "WithURL", u |-> u]
WithUser(u) == [t |-> "WithUser", s |-> u]
WithPassword(p) == [t |-> "WithPassword", s |-> p]
WithPoolSettings(popts) == [t |-> "WithPoolSettings", popts |-> popts]

\* a WithPoolSettings that applies the pool options on top of the pool
\* settings the entry holds already
ApplyDBOptionMergesPool(d, o) ==
    CASE o.t = "WithURL" -> [d EXCEPT !.URL = o.u]
      [] o.t = "WithUser" -> [d EXCEPT !.User = o.s]
      [] o.t = "WithPassword" -> [d EXCEPT !.Password = o.s]
      [] o.t = "WithPoolSettings" ->
            [d EXCEPT !.PGConfig = OwnPG(ApplyPoolOptions(d.PGConfig.val, o.popts))]

ApplyDBOption(d, o) ==
    CASE o.t = "WithURL" -> [d EXCEPT !.URL = o.u]
      [] o.t = "WithUser" -> [d EXCEPT !.User = o.s]
      [] o.t = "WithPassword" -> [d EXCEPT !.Password = o.s]
      [] o.t = "WithPoolSettings" ->
            [d EXCEPT !.PGConfig = OwnPG(ApplyPoolOptions(ZeroPool, o.popts))]

RECURSIVE ApplyDBOptions(_, _)
ApplyDBOptions(d, opts) ==
    IF opts = <<>> THEN d
    ELSE ApplyDBOptions(ApplyDBOption(d, Head(opts)), Tail(opts))

\* starts from the "default" entry of the package-level Databases map
databaseSettingsFromOptions(g, opts) ==
    ApplyDBOptions(MapGet(g.Databases, DefaultDBAlias), opts)

\* works on the package-level pool object itself, through the pointer
poolSettingsFromOptions(g, opts) == ApplyPoolOptions(g.PGConfig, opts)

WithDatabaseSettings(alias, dbopts) ==
    [t |-> "WithDatabaseSettings", alias |-> alias, dbopts |-> dbopts]
WithDefaultPoolOptions(popts) == [t |-> "WithDefaultPoolOptions", popts |-> popts]

\* The settings value an option works on is a shallow copy of defaultSettings:
\* its Databases is the package-level map and its PGConfig the package-level
\* pool object, so g below is both the draft and the package-level state.
ApplyOption(g, o) ==
    CASE o.t = "WithDatabaseSettings" ->
            [g EXCEPT !.Databases =
                MapSet(g.Databases, o.alias, databaseSettingsFromOptions(g, o.dbopts))]
      [] o.t = "WithDefaultPoolOptions" ->
            [g EXCEPT !.PGConfig = poolSettingsFromOptions(g, o.popts)]

RECURSIVE settingsFromOptions(_, _)
settingsFromOptions(g, opts) ==
    IF opts = <<>> THEN g
    ELSE settingsFromOptions(ApplyOption(g, Head(opts)), Tail(opts))

\* an alias that is not configured gets the "default" entry as it is; a
\* configured one without pool settings gets the pointer to the global ones
DBSettingsFor(s, db) ==
    IF db \notin DOMAIN s.Databases
    THEN IF DefaultDBAlias \in DOMAIN s.Databases
         THEN s.Databases[DefaultDBAlias]
         ELSE ZeroDB
    ELSE IF s.Databases[db].PGConfig.ref = "nil"
         THEN [s.Databases[db] EXCEPT !.PGConfig = GlobalPG]
         ELSE s.Databases[db]

\* the pool settings a databaseSettings sees now (PGConfig must not be nil)
Deref(g, pg) == IF pg.ref = "global" THEN g.PGConfig ELSE pg.val

----------------------------------------------------------------------------
(* URLs and validation *)

urlParseOK(u) == u.kind # "invalid"

\* u.Path = p; u.String(): without scheme and host only the path is left
URLWithPath(u, p) ==
    IF u.kind = "abs" THEN [kind |-> "abs", path |-> p]
    ELSE IF p = "" THEN EmptyURL ELSE [kind |-> "rel", path |-> p]

\* strings.TrimPrefix(u.Path, "/")
URLPath(u) == u.path

\* pgx.ParseConfig: a URL with the postgres scheme, or a keyword/value string;
\* a bare path is neither
pgxParseOK(u) == u.kind \in {"abs", "empty"}

\* the database a connection built from u asks for: the path or, without
\* one, the database named like the user
URLDatabase(u) == IF u.path = "" THEN "postgres" ELSE u.path

DBURL(r) == r.URL

\* a validateURL without the check for the empty string
validateURLParsesOnly(u) == u.kind # "invalid"

validateURL(u) == u.kind \notin {"empty", "invalid"}

Validate(g, r) ==
    /\ validateURL(DBURL(r))
    /\ pgxParseOK(DBURL(r))
    /\ \/ r.PGConfig.ref = "nil"
       \/ Deref(g, r.PGConfig).LogLevel = ""
       \/ Deref(g, r.PGConfig).LogLevel \in LogLevels

\* a SwitchDB that leaves the URL as it is
SwitchDBKeepsPath(r, dbName) == [ok |-> urlParseOK(DBURL(r)), r |-> r]

SwitchDB(r, dbName) ==
    [ok |-> urlParseOK(DBURL(r)),
     r |-> IF urlParseOK(DBURL(r))
           THEN [r EXCEPT !.URL = URLWithPath(DBURL(r), dbName)]
           ELSE r]

\* nil when pgx.ParseConfig fails; the Password override wins when not empty
ConnConfig(u, r) ==
    [nil |-> ~pgxParseOK(u),
     Database |-> URLDatabase(u),
     Password |-> IF r.Password # "" THEN r.Password ELSE EnvPassword]

TraceEnabled(g, r) == r.PGConfig.ref # "nil" /\ Deref(g, r.PGConfig).Trace

\* the limit SetPool puts on the pool; 0 is no limit
SetPoolMaxOpen(g, r) ==
    IF r.PGConfig.ref = "nil" THEN 0
    ELSE IF Deref(g, r.PGConfig).MaxOpenConns > 0
         THEN Deref(g, r.PGConfig).MaxOpenConns
         ELSE 0

maxWait(g, r) ==
    IF r.PGConfig.ref = "nil" \/ Deref(g, r.PGConfig).PingTimeout < Second
    THEN g.PGConfig.PingTimeout
    ELSE Deref(g, r.PGConfig).PingTimeout

\* the floor waitPing puts on its argument
waitPingFloor(d) == IF d < Second THEN Second ELSE d

----------------------------------------------------------------------------
(* The server, as a connection sees it *)

GoodPasswords == {"postgres"}

\* the error of one ping of pool pl: "ok", or the kind of the error
PingResult(pl) ==
    IF ~pl.open THEN "closed"
    ELSE IF ~up THEN "transient"
    ELSE IF pl.pw \notin GoodPasswords THEN "auth"
    ELSE IF pl.db \notin dbs THEN "nocat"
    ELSE "ok"

\* an errShouldReturn without the case of SQLSTATE 3D
errShouldReturnAuthOnly(e) ==
    IF e = "auth" THEN <<TRUE, "pgauth">> ELSE <<FALSE, e>>

\* an errShouldReturn that returns the error of SQLSTATE 28 without ErrPGAuth
errShouldReturnUnjoined(e) ==
    IF e \in {"auth", "nocat"} THEN <<TRUE, e>> ELSE <<FALSE, e>>

\* errShouldReturn: <<return now, the error returned>>; SQLSTATE 28 is wrapped
\* with ErrPGAuth ("pgauth"), SQLSTATE 3D is returned as it is ("nocat")
errShouldReturn(e) ==
    CASE e = "auth" -> <<TRUE, "pgauth">>
      [] e = "nocat" -> <<TRUE, "nocat">>
      [] OTHER -> <<FALSE, e>>

----------------------------------------------------------------------------
(* The names and option lists the clients call with *)

CallNames == {DefaultDBAlias, "appdb"}

OptMenu ==
    << <<>>,
       <<WithDatabaseSettings(DefaultDBAlias, <<WithPassword(pgPassword)>>)>>,
       <<WithDefaultPoolOptions(<<WithLogLevel("debug")>>),
         WithDatabaseSettings(DefaultDBAlias, <<WithPassword(pgPassword)>>)>>,
       <<WithDatabaseSettings(DefaultDBAlias,
            <<WithURL(urlWithoutDB), WithUser("postgres"), WithPassword("invalid")>>)>>,
       <<WithDatabaseSettings("appdb",
            <<WithPoolSettings(<<WithMaxOpenConns(1)>>)>>)>>,
       <<WithDatabaseSettings("appdb",
            <<WithPoolSettings(<<WithTracing(TRUE), WithPingTimeout(2)>>)>>)>>,
       <<WithDatabaseSettings(DefaultDBAlias, <<WithURL(EmptyURL)>>)>>,
       <<WithDefaultPoolOptions(<<WithLogLevel("verbose")>>),
         WithDatabaseSettings("appdb", <<WithURL(InvalidURL)>>)>> >>

Clients == DOMAIN pc

NoCall ==
    [op |-> "", outer |-> "", dbName |-> "", s |-> ZeroDB, es |-> ZeroDB,
     pool |-> 0, admin |-> 0, flag |-> FALSE, err |-> "nil", pre |-> {},
     ctx |-> "live", opt |-> 0, tx |-> "none"]

NoWait ==
    [maxWait |-> 0, elapsed |-> 0, delay |-> 0, probes |-> 0, fatalAt |-> 0,
     deadline |-> 0]

NoRepo == [made |-> FALSE, s |-> ZeroDB, db |-> 0]

Result(op, flag, err, pl) == [op |-> op, flag |-> flag, err |-> err, pool |-> pl]

\* a call may start: the client is between calls and has calls left
MayCall(p) == pc[p] = "idle" /\ Len(hist[p]) < arg[p].calls

----------------------------------------------------------------------------
(* connectNoDB up to the call of open, and the entries of the operations *)

\* <<error, the settings the administrative pool is opened with>>
connectNoDBEntry(g, dsn, s) ==
    IF ~urlParseOK(dsn) THEN [err |-> "invalidurl", s |-> s]
    ELSE IF ~Validate(g, [s EXCEPT !.URL = URLWithPath(dsn, "postgres")])
         THEN [err |-> "config", s |-> [s EXCEPT !.URL = URLWithPath(dsn, "postgres")]]
         ELSE [err |-> "nil", s |-> [s EXCEPT !.URL = URLWithPath(dsn, "postgres")]]

\* a CreateDB that uses the alias "default" itself as the name of the database
CreateDBEntryKeepsAlias(g, dbName) ==
    IF DBSettingsFor(g, dbName).URL = EmptyURL
    THEN [err |-> "config", dbName |-> dbName, s |-> DBSettingsFor(g, dbName)]
    ELSE [err |-> connectNoDBEntry(g, DBSettingsFor(g, dbName).URL,
                                   DBSettingsFor(g, dbName)).err,
          dbName |-> dbName,
          s |-> connectNoDBEntry(g, DBSettingsFor(g, dbName).URL,
                                 DBSettingsFor(g, dbName)).s]

\* CreateDB up to the call of open: the name used in SQL and the settings
CreateDBEntry(g, dbName) ==
    IF DBSettingsFor(g, dbName).URL = EmptyURL
    THEN [err |-> "config", dbName |-> dbName, s |-> DBSettingsFor(g, dbName)]
    ELSE IF dbName = DefaultDBAlias /\ ~urlParseOK(DBSettingsFor(g, dbName).URL)
    THEN [err |-> "invalidurl", dbName |-> dbName, s |-> DBSettingsFor(g, dbName)]
    ELSE [err |-> connectNoDBEntry(g, DBSettingsFor(g, dbName).URL,
                                   DBSettingsFor(g, dbName)).err,
          dbName |-> IF dbName = DefaultDBAlias
                     THEN URLPath(DBSettingsFor(g, dbName).URL)
                     ELSE dbName,
          s |-> connectNoDBEntry(g, DBSettingsFor(g, dbName).URL,
                                 DBSettingsFor(g, dbName)).s]

\* DropDB up to the call of open
DropDBEntry(g, dbName) ==
    [err |-> connectNoDBEntry(g, DBSettingsFor(g, dbName).URL,
                              DBSettingsFor(g, dbName)).err,
     dbName |-> dbName,
     s |-> connectNoDBEntry(g, DBSettingsFor(g, dbName).URL,
                            DBSettingsFor(g, dbName)).s]

\* EnsureDB up to the call of CreateDB
EnsureDBEntry(g, dbName) ==
    IF dbName # DefaultDBAlias
    THEN [err |-> IF SwitchDB(DBSettingsFor(g, dbName), dbName).ok
                  THEN "nil" ELSE "invalidurl",
          s |-> SwitchDB(DBSettingsFor(g, dbName), dbName).r]
    ELSE [err |-> "nil", s |-> DBSettingsFor(g, dbName)]

\* Start up to the call of open
StartEntry(g, s) == [err |-> IF Validate(g, s) THEN "nil" ELSE "config", s |-> s]

----------------------------------------------------------------------------
(* Steps common to the operations *)

\* what the history keeps of a call besides its result: the databases before
\* and after it, those with sessions of pools of earlier calls, what a ping
\* of the pool of the result answers as the call returns, and the error of
\* the CreateDB step of EnsureDB ("none" when the step did not run)
Observed(p, res) ==
    [pre |-> IF call[p].op = "" THEN dbs ELSE call[p].pre,
     post |-> dbs,
     busy |-> {pools[k].db : k \in {j \in DOMAIN pools :
                  pools[j].open /\ pools[j].conn /\ pools[j].call <= Len(hist[p])}},
     ping |-> IF res.pool = 0 THEN "none" ELSE PingResult(pools[res.pool]),
     inner |-> IF call[p].outer # "EnsureDB" THEN "none"
               ELSE IF call[p].op # "CreateDB" THEN "nil"
               ELSE IF res.err = "panic" THEN "panic"
               ELSE call[p].err]

\* the call returns res to the client; a panic ends the client
Returns(p, res) ==
    /\ hist' = [hist EXCEPT ![p] = Append(@, res @@ Observed(p, res))]
    /\ pc' = [pc EXCEPT ![p] = IF res.err = "panic" THEN "panicked" ELSE "idle"]
    /\ call' = [call EXCEPT ![p] = NoCall]
    /\ wp' = [wp EXCEPT ![p] = NoWait]

\* the call goes on at position q with locals c
Goes(p, q, c) ==
    /\ pc' = [pc EXCEPT ![p] = q]
    /\ call' = [call EXCEPT ![p] = c]
    /\ UNCHANGED <<hist, wp>>

\* the options of the call are applied to the package-level settings
Resolve(p) == settingsFromOptions(defaultSettings, OptMenu[arg[p].opts])

\* a Close that leaves the pool open
ClosePoolNot(ps, id) == ps

ClosePool(ps, id) == IF id = 0 THEN ps ELSE [ps EXCEPT ![id].open = FALSE]

NewPool(p, r, kind) ==
    [owner |-> p, kind |-> kind,
     db |-> ConnConfig(DBURL(r), r).Database,
     pw |-> ConnConfig(DBURL(r), r).Password,
     maxOpen |-> 0, open |-> TRUE, conn |-> FALSE, call |-> Len(hist[p]) + 1]

\* Repository.open up to the call of waitPing: the driver configuration is
\* registered, the trace driver too when tracing is on, and the pool is made.
\* Registering the trace driver and sql.Open fail only by an injected fault.
Open(p) ==
    /\ pc[p] = "open"
    /\ UNCHANGED <<defaultSettings, dbs, up, repo, hist, arg, probe, defaultsMx>>
    /\ IF ConnConfig(DBURL(call[p].s), call[p].s).nil
       THEN /\ call' = [call EXCEPT ![p].err = "invalidcfg"]
            /\ pc' = [pc EXCEPT ![p] = "openfail"]
            /\ UNCHANGED <<pools, wp, faults>>
       ELSE \/ /\ TraceEnabled(defaultSettings, call[p].s)
               /\ faults < MaxFaults
               /\ faults' = faults + 1
               /\ call' = [call EXCEPT ![p].err = "trace"]
               /\ pc' = [pc EXCEPT ![p] = "openfail"]
               /\ UNCHANGED <<pools, wp>>
            \/ /\ faults < MaxFaults
               /\ faults' = faults + 1
               /\ call' = [call EXCEPT ![p].err = "sqlopen"]
               /\ pc' = [pc EXCEPT ![p] = "openfail"]
               /\ UNCHANGED <<pools, wp>>
            \/ /\ pools' = Append(pools, NewPool(p, call[p].s,
                                     IF call[p].op \in {"CreateDB", "DropDB"}
                                     THEN "admin" ELSE "target"))
               /\ call' = [call EXCEPT ![p].pool = Len(pools) + 1]
               /\ wp' = [wp EXCEPT ![p] =
                           [NoWait EXCEPT !.maxWait =
                               waitPingFloor(maxWait(defaultSettings, call[p].s))]]
               /\ pc' = [pc EXCEPT ![p] = "ping"]
               /\ UNCHANGED faults

\* waitPing returned nil: the pool holds the connection of the ping; open sets
\* the pool limits and returns the pool
Opened(p) ==
    /\ pools' = [pools EXCEPT ![call[p].pool].maxOpen =
                                 SetPoolMaxOpen(defaultSettings, call[p].s),
                             ![call[p].pool].conn = TRUE]
    /\ pc' = [pc EXCEPT ![p] = "opened"]
    /\ call' = call

\* waitPing returned err: open returns it and leaves the pool as it is
OpenFails(p, err) ==
    /\ pools' = pools
    /\ pc' = [pc EXCEPT ![p] = "openfail"]
    /\ call' = [call EXCEPT ![p].err = err]

\* the probe errors of SQLSTATE class 28 and class 3D
Class28or3D == {"auth", "nocat"}

\* the locals w of waitPing after a probe that answered e; fatalAt keeps the
\* number of the first probe whose error is of class 28 or 3D
Probed(w, e) ==
    IF e \in Class28or3D /\ w.fatalAt = 0 THEN [w EXCEPT !.fatalAt = w.probes] ELSE w

\* the context of the running call of p is cancelled
Cancelled(p) == call[p].ctx = "cancelled"

\* the error of db.PingContext in waitPing: a cancelled context ends it at
\* once, with the error of the context
ProbeResult(p) ==
    IF Cancelled(p) THEN "canceled" ELSE PingResult(pools[call[p].pool])

\* what waitPing does with the error e of the immediate ping or of a tick's
\* ping, w being its locals after that ping
AfterPing(p, e, w) ==
    /\ wp' = [wp EXCEPT ![p] = Probed(w, e)]
    /\ IF e = "ok"
       THEN Opened(p)
       ELSE IF errShouldReturn(e)[1]
       THEN OpenFails(p, errShouldReturn(e)[2])
       ELSE /\ pc' = [pc EXCEPT ![p] = "wait"]
            /\ UNCHANGED <<pools, call>>

\* waitPing: the immediate ping, under the deadline of maxWait; the ticker
\* and the timer start after it, delay later than the deadline's clock
ImmediateProbe(p) ==
    /\ pc[p] = "ping"
    /\ UNCHANGED <<defaultSettings, dbs, up, repo, hist, faults, arg, probe, defaultsMx>>
    /\ \E d \in {0, Second} :
          /\ d = 0 \/ ProbeResult(p) = "transient"
          /\ AfterPing(p, ProbeResult(p),
                       [wp[p] EXCEPT !.probes = 1, !.delay = d,
                                     !.deadline = wp[p].maxWait])

\* the deadline of ctxTimeout, set maxWait after entry, has passed at tick k of
\* the ticker, which was started after the immediate ping took w.delay
PastDeadline(w, k) == w.delay + k >= w.maxWait

\* the error of the ping of a tick, run under ctxTimeout: past its deadline
\* the ping fails at once (an error of no SQLSTATE class)
TickResult(p) ==
    IF Cancelled(p) THEN "canceled"
    ELSE IF PastDeadline(wp[p], wp[p].elapsed + 1) THEN "transient"
    ELSE PingResult(pools[call[p].pool])

\* waitPing: the ticker fires and the select takes it
TickProbe(p) ==
    /\ pc[p] = "wait"
    /\ wp[p].elapsed < wp[p].maxWait
    /\ UNCHANGED <<defaultSettings, dbs, up, repo, hist, faults, arg, probe, defaultsMx>>
    /\ AfterPing(p, TickResult(p),
                 [wp[p] EXCEPT !.probes = @ + 1, !.elapsed = @ + 1])

\* the deadline of ctxLastTimeout, counted from the entry of waitPing: the
\* timer was started after the immediate ping took w.delay and fires maxWait
\* later, and the context made then ends maxWait after that
LastDeadline(w) == w.delay + w.maxWait + w.maxWait

\* waitPing: the timer of maxWait fires and the select takes it; the last ping
\* runs under a deadline of its own, and errShouldReturn is applied to its
\* error even when that error is nil
LastProbe(p) ==
    /\ pc[p] = "wait"
    /\ wp[p].elapsed + 1 >= wp[p].maxWait
    /\ UNCHANGED <<defaultSettings, dbs, up, repo, faults, arg, probe, defaultsMx>>
    /\ pools' = pools
    /\ IF ProbeResult(p) = "ok"
       THEN Returns(p, Result(IF call[p].outer # "" THEN call[p].outer
                              ELSE call[p].op, FALSE, "panic", 0))
       ELSE /\ pc' = [pc EXCEPT ![p] = "openfail"]
            /\ call' = [call EXCEPT ![p].err = errShouldReturn(ProbeResult(p))[2]]
            /\ wp' = [wp EXCEPT ![p] =
                        Probed([wp[p] EXCEPT !.probes = @ + 1,
                                             !.elapsed = wp[p].maxWait,
                                             !.deadline = LastDeadline(wp[p])],
                               ProbeResult(p))]
            /\ hist' = hist

----------------------------------------------------------------------------
(* CreateDB, DropDB, EnsureDB *)

\* CreateDB from its entry to the call of open in connectNoDB; it runs as a
\* call of its own or as the first step of EnsureDB
CreateDBEnter(p) ==
    /\ MayCall(p) \/ pc[p] = "ensure"
    /\ defaultSettings' = Resolve(p)
    /\ LET e == CreateDBEntry(Resolve(p), arg[p].name) IN
       Goes(p, IF e.err = "nil" THEN "open" ELSE "ret",
            [call[p] EXCEPT !.op = "CreateDB", !.dbName = e.dbName, !.s = e.s,
                            !.err = e.err, !.flag = FALSE,
                            !.pre = IF pc[p] = "ensure" THEN @ ELSE dbs])
    /\ UNCHANGED <<dbs, up, pools, repo, faults, arg, probe, defaultsMx>>

DropDBEnter(p) ==
    /\ MayCall(p)
    /\ defaultSettings' = Resolve(p)
    /\ LET e == DropDBEntry(Resolve(p), arg[p].name) IN
       Goes(p, IF e.err = "nil" THEN "open" ELSE "ret",
            [call[p] EXCEPT !.op = "DropDB", !.dbName = e.dbName, !.s = e.s,
                            !.err = e.err, !.flag = FALSE, !.pre = dbs])
    /\ UNCHANGED <<dbs, up, pools, repo, faults, arg, probe, defaultsMx>>

\* connectNoDB returns the pool and the closer, and the transaction begins
BeginTx(p) ==
    /\ pc[p] = "opened"
    /\ call[p].op \in {"CreateDB", "DropDB"}
    /\ Goes(p, IF up /\ ~Cancelled(p) THEN "exists" ELSE "ret",
            [call[p] EXCEPT !.admin = call[p].pool,
                            !.tx = IF up /\ ~Cancelled(p) THEN "open" ELSE "none",
                            !.err = IF Cancelled(p) THEN "canceled"
                                    ELSE IF up THEN "nil" ELSE "transient"])
    /\ UNCHANGED <<defaultSettings, dbs, up, pools, repo, faults, arg, probe, defaultsMx>>

\* open failed: connectNoDB returns the error, without a closer
ConnectFails(p) ==
    /\ pc[p] = "openfail"
    /\ call[p].op \in {"CreateDB", "DropDB"}
    /\ Goes(p, "ret", call[p])
    /\ UNCHANGED <<defaultSettings, dbs, up, pools, repo, faults, arg, probe, defaultsMx>>

\* a catalog query that matches no row
dbExistsNoRow(dbName) ==
    IF ~up THEN <<FALSE, "transient">> ELSE <<FALSE, "nil">>

\* the catalog query of dbExists: <<found, error>>
dbExists(dbName) ==
    IF ~up THEN <<FALSE, "transient">> ELSE <<dbName \in dbs, "nil">>

\* the statement is run whatever the existence check answered
NeedsDDLAlways(op, found) == TRUE

\* CreateDB goes on to the statement when the database is absent, DropDB
\* when it is there; otherwise they return <<FALSE, nil>>
NeedsDDL(op, found) == IF op = "CreateDB" THEN ~found ELSE found

\* CreateDB commits the transaction before it returns for a database that
\* exists (the error of that Commit is dropped); DropDB returns for a
\* database that is absent with the transaction as it is
CommitsWithoutDDL(op, found) == op = "CreateDB" /\ found

\* the existence check and what the operation does with its answer; the
\* query of a cancelled context fails
Exists(p) ==
    /\ pc[p] = "exists"
    /\ IF Cancelled(p)
       THEN Goes(p, "ret", [call[p] EXCEPT !.err = "canceled"])
       ELSE Goes(p,
                 IF dbExists(call[p].dbName)[2] = "nil"
                    /\ NeedsDDL(call[p].op, dbExists(call[p].dbName)[1])
                 THEN "ddl" ELSE "ret",
                 [call[p] EXCEPT !.err = dbExists(call[p].dbName)[2],
                                 !.tx = IF dbExists(call[p].dbName)[2] = "nil"
                                           /\ CommitsWithoutDDL(call[p].op,
                                                  dbExists(call[p].dbName)[1])
                                        THEN "committed" ELSE @])
    /\ UNCHANGED <<defaultSettings, dbs, up, pools, repo, faults, arg, probe, defaultsMx>>

\* the pool hands out a connection while the transaction holds one
ConnAvailable(pl) == pl.maxOpen = 0 \/ pl.maxOpen >= 2

\* a server that takes CREATE DATABASE for a database that exists
ServerCreateAcceptsDuplicate(dbName) ==
    IF ~up THEN <<dbs, "transient">>
    ELSE IF dbName = "" THEN <<dbs, "syntax">>
    ELSE <<dbs \cup {dbName}, "nil">>

\* CREATE DATABASE on the server: <<the databases afterwards, error>>
ServerCreate(dbName) ==
    IF ~up THEN <<dbs, "transient">>
    ELSE IF dbName = "" THEN <<dbs, "syntax">>
    ELSE IF dbName \in dbs THEN <<dbs, "duplicate">>
    ELSE <<dbs \cup {dbName}, "nil">>

\* the databases on which an open pool holds a connection
Busy == {pools[k].db : k \in {j \in DOMAIN pools : pools[j].open /\ pools[j].conn}}

\* DROP DATABASE IF EXISTS on the server, which refuses to drop a database
\* that has sessions
ServerDrop(dbName) ==
    IF ~up THEN <<dbs, "transient">>
    ELSE IF dbName = "" THEN <<dbs, "syntax">>
    ELSE IF dbName \in Busy THEN <<dbs, "inuse">>
    ELSE <<dbs \ {dbName}, "nil">>

\* a Commit that is tried after a statement that failed
AfterDDLCommits(err) == "commit"

\* the error of the statement is returned; Commit follows when there is none
AfterDDL(err) == IF err = "nil" THEN "commit" ELSE "ret"

\* the statement is run on the pool, not on the transaction; with a
\* cancelled context it is not run, and a wait for a connection ends
ExecDDL(p) ==
    /\ pc[p] = "ddl"
    /\ ConnAvailable(pools[call[p].admin]) \/ Cancelled(p)
    /\ LET r == IF Cancelled(p) THEN <<dbs, "canceled">>
                ELSE IF call[p].op = "CreateDB" THEN ServerCreate(call[p].dbName)
                ELSE ServerDrop(call[p].dbName)
       IN
       /\ dbs' = r[1]
       /\ Goes(p, AfterDDL(r[2]), [call[p] EXCEPT !.err = r[2]])
    /\ UNCHANGED <<defaultSettings, up, pools, repo, faults, arg, probe, defaultsMx>>

\* tx.Commit; the transaction of a cancelled context is rolled back and its
\* Commit fails
Commit(p) ==
    /\ pc[p] = "commit"
    /\ Goes(p, "ret", [call[p] EXCEPT !.err = IF Cancelled(p) THEN "canceled"
                                             ELSE IF up THEN "nil" ELSE "transient",
                                      !.tx = IF up /\ ~Cancelled(p)
                                             THEN "committed" ELSE "failed",
                                      !.flag = up /\ ~Cancelled(p)])
    /\ UNCHANGED <<defaultSettings, dbs, up, pools, repo, faults, arg, probe, defaultsMx>>

\* an EnsureDB that passes on the flag of the failed CreateDB
EnsureDBCreateFailedFlag(err) == Result("EnsureDB", FALSE, err, 0)

\* what EnsureDB returns when its CreateDB step returned err
EnsureDBCreateFailed(err) == Result("EnsureDB", TRUE, err, 0)

\* a CreateDB or DropDB that returns true whatever the error
ProvResultTrue(op, flag, err) == Result(op, TRUE, err, 0)

\* what CreateDB and DropDB return: every return with an error is written
\* `return false, err`
ProvResult(op, flag, err) == Result(op, err = "nil" /\ flag, err, 0)

\* CreateDB or DropDB returns <<flag, err>>; the deferred closer closes the
\* administrative pool when connectNoDB had returned one.  Inside EnsureDB
\* the result goes to EnsureDB, which returns or opens the target pool.
ProvReturn(p) ==
    /\ pc[p] = "ret"
    /\ pools' = ClosePool(pools, call[p].admin)
    /\ IF call[p].outer = "EnsureDB"
       THEN IF call[p].err # "nil"
            THEN Returns(p, EnsureDBCreateFailed(call[p].err))
            ELSE Goes(p, "open", [call[p] EXCEPT !.op = "EnsureDB", !.s = call[p].es,
                                                 !.admin = 0, !.pool = 0,
                                                 !.tx = "none"])
       ELSE Returns(p, ProvResult(call[p].op, call[p].flag, call[p].err))
    /\ UNCHANGED <<defaultSettings, dbs, up, repo, faults, arg, probe, defaultsMx>>

\* EnsureDB from its entry to the call of CreateDB
EnsureDBEnter(p) ==
    /\ MayCall(p)
    /\ defaultSettings' = Resolve(p)
    /\ LET e == EnsureDBEntry(Resolve(p), arg[p].name) IN
       IF e.err # "nil"
       THEN Returns(p, Result("EnsureDB", FALSE, e.err, 0))
       ELSE Goes(p, "ensure", [call[p] EXCEPT !.op = "EnsureDB", !.pre = dbs,
                                              !.outer = "EnsureDB", !.es = e.s])
    /\ UNCHANGED <<dbs, up, pools, repo, faults, arg, probe, defaultsMx>>

\* the caller closes the pool that EnsureDB has just returned to it
CloseReturned(p) ==
    /\ pc[p] = "idle"
    /\ \E i \in {Len(hist[p])} \ {0} :
          /\ hist[p][i].op = "EnsureDB"
          /\ hist[p][i].pool # 0
          /\ pools[hist[p][i].pool].open
          /\ pools' = ClosePool(pools, hist[p][i].pool)
    /\ UNCHANGED <<defaultSettings, dbs, up, pc, call, wp, repo, hist, faults, arg,
                   probe, defaultsMx>>

\* an EnsureDB that returns created = true whenever it returns an error
EnsureDBOpenFailedTrue(flag, err) == Result("EnsureDB", TRUE, err, 0)

\* what EnsureDB returns when open on the target database returned err: no
\* pool, the flag of its CreateDB step and the error
EnsureDBOpenFailed(flag, err) == Result("EnsureDB", flag, err, 0)

\* EnsureDB after open on the target database: the pool, or the error
EnsureDBReturn(p) ==
    /\ pc[p] \in {"opened", "openfail"}
    /\ call[p].op = "EnsureDB"
    /\ IF pc[p] = "opened"
       THEN Returns(p, Result("EnsureDB", call[p].flag, "nil", call[p].pool))
       ELSE Returns(p, EnsureDBOpenFailed(call[p].flag, call[p].err))
    /\ UNCHANGED <<defaultSettings, dbs, up, pools, repo, faults, arg, probe, defaultsMx>>

----------------------------------------------------------------------------
(* Repository *)

New(p) ==
    /\ pc[p] = "idle"
    /\ ~repo[p].made
    /\ defaultSettings' = Resolve(p)
    /\ repo' = [repo EXCEPT ![p] =
                  [made |-> TRUE, s |-> DBSettingsFor(Resolve(p), arg[p].name),
                   db |-> 0]]
    /\ UNCHANGED <<dbs, up, pools, pc, call, wp, hist, faults, arg, probe, defaultsMx>>

\* Start from its entry to the call of open
StartEnter(p) ==
    /\ MayCall(p)
    /\ repo[p].made
    /\ IF StartEntry(defaultSettings, repo[p].s).err # "nil"
       THEN Returns(p, Result("Start", FALSE,
                              StartEntry(defaultSettings, repo[p].s).err, 0))
       ELSE Goes(p, "open", [call[p] EXCEPT !.op = "Start", !.s = repo[p].s,
                                            !.pre = dbs])
    /\ UNCHANGED <<defaultSettings, dbs, up, pools, repo, faults, arg, probe, defaultsMx>>

\* Start after open: r.db is set only when open returned a pool
StartReturn(p) ==
    /\ pc[p] \in {"opened", "openfail"}
    /\ call[p].op = "Start"
    /\ IF pc[p] = "opened"
       THEN /\ repo' = [repo EXCEPT ![p].db = call[p].pool]
            /\ Returns(p, Result("Start", FALSE, "nil", call[p].pool))
       ELSE /\ repo' = repo
            /\ Returns(p, Result("Start", FALSE, call[p].err, 0))
    /\ UNCHANGED <<defaultSettings, dbs, up, pools, faults, arg, probe, defaultsMx>>

\* Stop: nothing without a pool; Close of a closed pool returns nil too
Stop(p) ==
    /\ MayCall(p)
    /\ repo[p].made
    /\ pools' = ClosePool(pools, repo[p].db)
    /\ Returns(p, Result("Stop", FALSE, "nil", repo[p].db))
    /\ UNCHANGED <<defaultSettings, dbs, up, repo, faults, arg, probe, defaultsMx>>

\* the error of HealthCheck; PingTimeout is read through PGConfig, nil or not,
\* and used as it is for the deadline of the ping
HealthCheckResult(g, r, ps) ==
    IF r.db = 0 THEN "notinit"
    ELSE IF r.s.PGConfig.ref = "nil" THEN "panic"
    ELSE IF ~ps[r.db].open THEN "closed"
    ELSE IF Deref(g, r.s.PGConfig).PingTimeout <= 0 THEN "deadline"
    ELSE IF PingResult(ps[r.db]) = "ok" THEN "nil"
    ELSE PingResult(ps[r.db])

HealthCheck(p) ==
    /\ MayCall(p)
    /\ repo[p].made
    /\ Returns(p, Result("HealthCheck", FALSE,
                         HealthCheckResult(defaultSettings, repo[p], pools),
                         repo[p].db))
    /\ UNCHANGED <<defaultSettings, dbs, up, pools, repo, faults, arg, probe, defaultsMx>>

----------------------------------------------------------------------------
(* The environment *)

ServerDown ==
    /\ up
    /\ faults < MaxFaults
    /\ up' = FALSE
    /\ faults' = faults + 1
    /\ UNCHANGED <<defaultSettings, dbs, pools, pc, call, wp, repo, hist, arg, probe,
                   defaultsMx>>

ServerUp ==
    /\ ~up
    /\ up' = TRUE
    /\ UNCHANGED <<defaultSettings, dbs, pools, pc, call, wp, repo, hist, faults,
                   arg, probe, defaultsMx>>

----------------------------------------------------------------------------
(* Specifications *)

NoProbe ==
    [s |-> InitDefaultSettings, alias |-> DefaultDBAlias, op |-> "", r |-> ZeroDB,
     err |-> "nil", flag |-> FALSE, opens |-> FALSE, popts |-> <<>>]

\* P the clients, n the calls each makes, D the databases that may exist
\* besides postgres
InitClients(P, n, D) ==
    /\ defaultSettings = InitDefaultSettings
    /\ dbs \in {{"postgres"} \cup X : X \in SUBSET D}
    /\ up = TRUE
    /\ pools = <<>>
    /\ pc = [p \in P |-> "idle"]
    /\ call = [p \in P |-> NoCall]
    /\ wp = [p \in P |-> NoWait]
    /\ repo = [p \in P |-> NoRepo]
    /\ hist = [p \in P |-> <<>>]
    /\ faults = 0
    /\ defaultsMx = 0
    /\ arg \in [P -> [name : CallNames, opts : DOMAIN OptMenu, calls : {n}]]

\* one client provisioning on a server that stays reachable: CreateDB, DropDB
\* and EnsureDB in any order
InitProv == InitClients({1}, MaxCalls, {"testdb", "appdb"}) /\ probe = NoProbe

NextProv ==
    \/ \E p \in Clients : CreateDBEnter(p)
    \/ \E p \in Clients : DropDBEnter(p)
    \/ \E p \in Clients : EnsureDBEnter(p)
    \/ \E p \in Clients : Open(p)
    \/ \E p \in Clients : ImmediateProbe(p)
    \/ \E p \in Clients : BeginTx(p)
    \/ \E p \in Clients : ConnectFails(p)
    \/ \E p \in Clients : Exists(p)
    \/ \E p \in Clients : ExecDDL(p)
    \/ \E p \in Clients : Commit(p)
    \/ \E p \in Clients : ProvReturn(p)
    \/ \E p \in Clients : EnsureDBReturn(p)
    \/ \E p \in Clients : CloseReturned(p)

SpecProv == InitProv /\ [][NextProv]_vars

\* one client making a call that opens a pool (CreateDB, DropDB, EnsureDB, or
\* Start of a Repository) on a server that may become unreachable and
\* reachable again at any moment
InitOutage ==
    InitClients({1}, MaxOutageCalls, {"testdb", "appdb"}) /\ probe = NoProbe

NextOutage ==
    \/ NextProv
    \/ \E p \in Clients : New(p)
    \/ \E p \in Clients : StartEnter(p)
    \/ \E p \in Clients : StartReturn(p)
    \/ \E p \in Clients : TickProbe(p)
    \/ \E p \in Clients : LastProbe(p)
    \/ ServerDown
    \/ ServerUp

SpecOutage == InitOutage /\ [][NextOutage]_vars

\* a step of the running call of p: the goroutine of the caller goes on
\* whenever it can, pings return, the ticker and the timer of waitPing fire
RunStep(p) ==
    \/ pc[p] = "ensure" /\ CreateDBEnter(p)
    \/ Open(p)
    \/ ImmediateProbe(p)
    \/ TickProbe(p)
    \/ LastProbe(p)
    \/ BeginTx(p)
    \/ ConnectFails(p)
    \/ Exists(p)
    \/ ExecDDL(p)
    \/ Commit(p)
    \/ ProvReturn(p)
    \/ EnsureDBReturn(p)
    \/ StartReturn(p)

\* the runs of SpecOutage in which a call that can take a step takes one;
\* nothing is assumed of the server or of the moment a client calls
SpecLive ==
    InitOutage /\ [][NextOutage]_vars /\ WF_vars(\E p \in Clients : RunStep(p))

\* one client with one Repository: New, then Start, Stop and HealthCheck in
\* any order, on a server that may become unreachable and reachable again;
\* its pool is on the database of the "default" URL, whatever the alias
InitRepo == InitClients({1}, MaxCalls, {"testdb"}) /\ probe = NoProbe

NextRepo ==
    \/ \E p \in Clients : New(p)
    \/ \E p \in Clients : StartEnter(p)
    \/ \E p \in Clients : StartReturn(p)
    \/ \E p \in Clients : Stop(p)
    \/ \E p \in Clients : HealthCheck(p)
    \/ \E p \in Clients : Open(p)
    \/ \E p \in Clients : ImmediateProbe(p)
    \/ \E p \in Clients : TickProbe(p)
    \/ \E p \in Clients : LastProbe(p)
    \/ ServerDown
    \/ ServerUp

SpecRepo == InitRepo /\ [][NextRepo]_vars

\* the caller of CreateDB, DropDB or EnsureDB cancels the context it passed;
\* Start runs under context.Background(), which nobody cancels
CancelCtx(p) ==
    /\ pc[p] \notin {"idle", "panicked"}
    /\ call[p].op \in {"CreateDB", "DropDB", "EnsureDB"}
    /\ ~Cancelled(p)
    /\ call' = [call EXCEPT ![p].ctx = "cancelled"]
    /\ UNCHANGED <<defaultSettings, dbs, up, pools, pc, wp, repo, hist, faults, arg,
                   probe, defaultsMx>>

\* as SpecOutage, with callers that may cancel their context at any moment
NextCancel ==
    \/ NextOutage
    \/ \E p \in Clients : CancelCtx(p)

SpecCancel == InitOutage /\ [][NextCancel]_vars

\* two clients calling CreateDB and DropDB for the same database at the same
\* time, with valid settings, on a server that stays reachable
InitRace ==
    /\ InitClients({1, 2}, MaxRaceCalls, {"appdb"})
    /\ \A p \in Clients : arg[p].name = "appdb" /\ arg[p].opts \in {1, 2}
    /\ probe = NoProbe

NextRace ==
    \/ \E p \in Clients : CreateDBEnter(p)
    \/ \E p \in Clients : DropDBEnter(p)
    \/ \E p \in Clients : Open(p)
    \/ \E p \in Clients : ImmediateProbe(p)
    \/ \E p \in Clients : BeginTx(p)
    \/ \E p \in Clients : ConnectFails(p)
    \/ \E p \in Clients : Exists(p)
    \/ \E p \in Clients : ExecDDL(p)
    \/ \E p \in Clients : Commit(p)
    \/ \E p \in Clients : ProvReturn(p)

SpecRace == InitRace /\ [][NextRace]_vars

----------------------------------------------------------------------------
(* New and SetDefaults of concurrent callers, one access to the package-level *)
(* defaults per step.  The settings value that settingsFromOptions works on   *)
(* is a copy of the struct defaultSettings: its Databases is the package's    *)
(* map and its PGConfig points to the package's pool settings.                *)

\* the next option of the running call of p, or none
NextOption(p) ==
    IF call[p].opt \in DOMAIN OptMenu[arg[p].opts]
    THEN OptMenu[arg[p].opts][call[p].opt]
    ELSE [t |-> "none"]

\* where the call of p goes on after its option opt - 1: to the next option,
\* or out of settingsFromOptions
AfterOption(p, opt) ==
    IF opt \in DOMAIN OptMenu[arg[p].opts] THEN "apply"
    ELSE IF call[p].op = "SetDefaults" THEN "store" ELSE "resolve"

\* SetDefaults is called and asks for the lock
SetDefaultsEnter(p) ==
    /\ MayCall(p)
    /\ Goes(p, "lock", [call[p] EXCEPT !.op = "SetDefaults", !.pre = dbs])
    /\ UNCHANGED <<defaultSettings, dbs, up, pools, repo, faults, arg, probe,
                   defaultsMx>>

\* defaultsMx.Lock()
Lock(p) ==
    /\ pc[p] = "lock"
    /\ defaultsMx = 0
    /\ defaultsMx' = p
    /\ Goes(p, "copy", call[p])
    /\ UNCHANGED <<defaultSettings, dbs, up, pools, repo, faults, arg, probe>>

\* New is called: settingsFromOptions without the lock
NewEnter(p) ==
    /\ MayCall(p)
    /\ ~repo[p].made
    /\ Goes(p, "copy", [call[p] EXCEPT !.op = "New", !.pre = dbs])
    /\ UNCHANGED <<defaultSettings, dbs, up, pools, repo, faults, arg, probe,
                   defaultsMx>>

\* settingsFromOptions: s := defaultSettings
CopyDefaults(p) ==
    /\ pc[p] = "copy"
    /\ Goes(p, AfterOption(p, 1), [call[p] EXCEPT !.opt = 1])
    /\ UNCHANGED <<defaultSettings, dbs, up, pools, repo, faults, arg, probe,
                   defaultsMx>>

\* the next option is applied.  WithDatabaseSettings reads the "default"
\* entry of the package's map and applies its options to the copy; the
\* write of the entry is the next step.  WithDefaultPoolOptions applies its
\* options to the package's pool settings, through the pointer.
ApplyNext(p) ==
    /\ pc[p] = "apply"
    /\ IF NextOption(p).t = "WithDatabaseSettings"
       THEN /\ Goes(p, "mapwrite",
                    [call[p] EXCEPT !.s = databaseSettingsFromOptions(
                                             defaultSettings, NextOption(p).dbopts)])
            /\ defaultSettings' = defaultSettings
       ELSE /\ Goes(p, AfterOption(p, call[p].opt + 1),
                    [call[p] EXCEPT !.opt = @ + 1])
            /\ defaultSettings' =
                  [defaultSettings EXCEPT !.PGConfig =
                      poolSettingsFromOptions(defaultSettings, NextOption(p).popts)]
    /\ UNCHANGED <<dbs, up, pools, repo, faults, arg, probe, defaultsMx>>

\* WithDatabaseSettings: o.Databases[alias] = dbs, on the package's map
MapWrite(p) ==
    /\ pc[p] = "mapwrite"
    /\ defaultSettings' =
          [defaultSettings EXCEPT !.Databases =
              MapSet(@, NextOption(p).alias, call[p].s)]
    /\ Goes(p, AfterOption(p, call[p].opt + 1), [call[p] EXCEPT !.opt = @ + 1])
    /\ UNCHANGED <<dbs, up, pools, repo, faults, arg, probe, defaultsMx>>

\* New: DBSettingsFor reads the map, and the Repository is returned
ResolveNew(p) ==
    /\ pc[p] = "resolve"
    /\ repo' = [repo EXCEPT ![p] =
                  [made |-> TRUE, s |-> DBSettingsFor(defaultSettings, arg[p].name),
                   db |-> 0]]
    /\ Returns(p, Result("New", FALSE, "nil", 0))
    /\ UNCHANGED <<defaultSettings, dbs, up, pools, faults, arg, probe, defaultsMx>>

\* SetDefaults: defaultSettings = s; the struct gets the pointers it holds
StoreDefaults(p) ==
    /\ pc[p] = "store"
    /\ defaultSettings' = defaultSettings
    /\ Goes(p, "unlock", call[p])
    /\ UNCHANGED <<dbs, up, pools, repo, faults, arg, probe, defaultsMx>>

\* the deferred defaultsMx.Unlock(), and SetDefaults returns
Unlock(p) ==
    /\ pc[p] = "unlock"
    /\ defaultsMx' = IF defaultsMx = p THEN 0 ELSE defaultsMx
    /\ Returns(p, Result("SetDefaults", FALSE, "nil", 0))
    /\ UNCHANGED <<defaultSettings, dbs, up, pools, repo, faults, arg, probe>>

\* the accesses to the package-level defaults that the next step of p makes:
\* the struct defaultSettings, its Databases map, the pool settings it
\* points to; w says whether the access writes
Access(p) ==
    CASE pc[p] = "copy" -> {[loc |-> "struct", w |-> FALSE]}
      [] pc[p] = "apply" /\ NextOption(p).t = "WithDatabaseSettings" ->
            {[loc |-> "struct", w |-> FALSE], [loc |-> "map", w |-> FALSE]}
      [] pc[p] = "apply" /\ NextOption(p).t # "WithDatabaseSettings" ->
            {[loc |-> "struct", w |-> FALSE], [loc |-> "pool", w |-> TRUE]}
      [] pc[p] = "mapwrite" -> {[loc |-> "map", w |-> TRUE]}
      [] pc[p] = "resolve" -> {[loc |-> "map", w |-> FALSE]}
      [] pc[p] = "store" -> {[loc |-> "struct", w |-> TRUE]}
      [] OTHER -> {}

\* the next steps of p and q access the same location, one of them writing
Races(p, q, loc) ==
    /\ p # q
    /\ \E a \in Access(p), b \in Access(q) :
          a.loc = loc /\ b.loc = loc /\ (a.w \/ b.w)

\* two goroutines in the map at the same time, one writing: the runtime may
\* end the process ("concurrent map writes", "concurrent map read and map
\* write"); when it does not, the accesses take effect in either order
ConcurrentMapFault ==
    /\ \E p, q \in Clients : Races(p, q, "map")
    /\ pc' = [p \in Clients |-> "panicked"]
    /\ UNCHANGED <<defaultSettings, dbs, up, pools, call, wp, repo, hist, faults,
                   arg, probe, defaultsMx>>

InitOptions == InitClients({1, 2}, MaxRaceCalls, {}) /\ probe = NoProbe

NextOptions ==
    \/ \E p \in Clients : SetDefaultsEnter(p)
    \/ \E p \in Clients : Lock(p)
    \/ \E p \in Clients : NewEnter(p)
    \/ \E p \in Clients : CopyDefaults(p)
    \/ \E p \in Clients : ApplyNext(p)
    \/ \E p \in Clients : MapWrite(p)
    \/ \E p \in Clients : ResolveNew(p)
    \/ \E p \in Clients : StoreDefaults(p)
    \/ \E p \in Clients : Unlock(p)
    \/ ConcurrentMapFault

SpecOptions == InitOptions /\ [][NextOptions]_vars

----------------------------------------------------------------------------
(* Resolution of settings: DBSettingsFor on a settings value and an alias,  *)
(* and what New/Start, CreateDB, DropDB and EnsureDB make of the result up  *)
(* to the point where they would open a pool.                               *)

\* the entries a Databases map is made of
DBMenu ==
    { [URL |-> DefaultURL, User |-> "", Password |-> "", PGConfig |-> NilPG],
      [URL |-> [kind |-> "abs", path |-> "appdb"], User |-> "postgres",
       Password |-> pgPassword,
       PGConfig |-> OwnPG([ZeroPool EXCEPT !.PingTimeout = 2])],
      ZeroDB }

ConfiguredAliases == {DefaultDBAlias, "appdb"}

ProbeAliases == {DefaultDBAlias, "appdb", "other"}

\* the global pool settings: those of the package, and others that differ
\* from the zero value in every field
PoolMenu ==
    { InitDefaultSettings.PGConfig,
      [MaxIdleConns |-> 7, MaxOpenConns |-> 5, PingTimeout |-> 3,
       LogLevel |-> "debug", Trace |-> TRUE] }

\* settings values with any of the aliases configured or not
SettingsMenu ==
    { [PGConfig |-> g, Databases |-> m] :
        g \in PoolMenu,
        m \in UNION {[A -> DBMenu] : A \in SUBSET ConfiguredAliases} }

\* the pool options given to WithPoolSettings
PoolOptMenu ==
    { <<>>,
      <<WithMaxOpenConns(1)>>,
      <<WithTracing(TRUE), WithPingTimeout(2)>>,
      <<WithLogLevel("info"), WithMaxIdleConns(4), WithMaxIdleConns(3)>> }

Probes(op, r, err, flag, opens) ==
    /\ probe.op = ""
    /\ probe' = [probe EXCEPT !.op = op, !.r = r, !.err = err, !.flag = flag,
                              !.opens = opens]
    /\ UNCHANGED <<defaultSettings, dbs, up, pools, pc, call, wp, repo, hist,
                   faults, arg, defaultsMx>>

ProbeDBSettingsFor ==
    Probes("DBSettingsFor", DBSettingsFor(probe.s, probe.alias), "nil", FALSE, FALSE)

\* New for the alias, then Start up to the call of open
ProbeStart ==
    LET e == StartEntry(probe.s, DBSettingsFor(probe.s, probe.alias)) IN
    Probes("Start", e.s, e.err, FALSE, e.err = "nil")

ProbeCreateDB ==
    LET e == CreateDBEntry(probe.s, probe.alias) IN
    Probes("CreateDB", e.s, e.err, FALSE, e.err = "nil")

ProbeDropDB ==
    LET e == DropDBEntry(probe.s, probe.alias) IN
    Probes("DropDB", e.s, e.err, FALSE, e.err = "nil")

\* the call options WithDatabaseSettings(alias, WithPoolSettings(popts...)),
\* then DBSettingsFor for that alias, as New, CreateDB, DropDB and EnsureDB do
ProbeWithPoolSettings ==
    Probes("WithPoolSettings",
           DBSettingsFor(
               settingsFromOptions(probe.s,
                   <<WithDatabaseSettings(probe.alias,
                                          <<WithPoolSettings(probe.popts)>>)>>),
               probe.alias),
           "nil", FALSE, FALSE)

\* the option an earlier position of the call gives for the alias
EarlierDBOptions == <<WithURL(urlWithoutDB), WithUser("postgres")>>

\* the call options WithDatabaseSettings(alias, WithURL, WithUser) and then
\* WithDatabaseSettings(alias, WithPoolSettings(popts...)): the entry of the
\* alias in the Databases map afterwards
ProbeWithDatabaseSettings ==
    Probes("WithDatabaseSettings",
           MapGet(settingsFromOptions(probe.s,
                      <<WithDatabaseSettings(probe.alias, EarlierDBOptions),
                        WithDatabaseSettings(probe.alias,
                                             <<WithPoolSettings(probe.popts)>>)>>
                  ).Databases,
                  probe.alias),
           "nil", FALSE, FALSE)

\* EnsureDB up to the call of open in its CreateDB step
ProbeEnsureDB ==
    LET e == EnsureDBEntry(probe.s, probe.alias)
        c == CreateDBEntry(probe.s, probe.alias)
    IN
    IF e.err # "nil"
    THEN Probes("EnsureDB", e.s, e.err, FALSE, FALSE)
    ELSE Probes("EnsureDB", c.s, c.err, EnsureDBCreateFailed(c.err).flag /\ c.err # "nil",
                c.err = "nil")

InitSettings ==
    /\ InitClients({1}, 0, {})
    /\ arg = [p \in {1} |-> [name |-> DefaultDBAlias, opts |-> 1, calls |-> 0]]
    /\ probe \in {[NoProbe EXCEPT !.s = s, !.alias = a, !.popts = o] :
                    s \in SettingsMenu, a \in ProbeAliases, o \in PoolOptMenu}

NextSettings ==
    \/ ProbeDBSettingsFor
    \/ ProbeStart
    \/ ProbeCreateDB
    \/ ProbeDropDB
    \/ ProbeEnsureDB
    \/ ProbeWithPoolSettings
    \/ ProbeWithDatabaseSettings

SpecSettings == InitSettings /\ [][NextSettings]_vars

----------------------------------------------------------------------------
(* Properties of CreateDB, DropDB and EnsureDB *)

\* the settings the calls of client p resolve for the name they pass
Resolved(p) == DBSettingsFor(Resolve(p), arg[p].name)

\* the database the name of client p stands for: the one of the URL path for
\* the alias "default", the one of that name otherwise
Target(p) ==
    IF arg[p].name = DefaultDBAlias THEN URLPath(DBURL(Resolved(p))) ELSE arg[p].name

\* the calls of client p run with valid settings and valid credentials and
\* nothing has failed in the environment
Nominal(p) ==
    /\ faults = 0
    /\ Validate(Resolve(p), Resolved(p))
    /\ ConnConfig(DBURL(Resolved(p)), Resolved(p)).Password \in GoodPasswords

\* the i-th call of p was op and the next one op2
Successive(p, i, op, op2) ==
    /\ i \in DOMAIN hist[p]
    /\ i + 1 \in DOMAIN hist[p]
    /\ hist[p][i].op = op
    /\ hist[p][i + 1].op = op2

\* the i-th call of p returned <<flag, nil>>
Returned(p, i, flag) == hist[p][i].flag = flag /\ hist[p][i].err = "nil"

\* the call op of p returns in this step
JustReturned(p, op) ==
    /\ Len(hist'[p]) = Len(hist[p]) + 1
    /\ hist'[p][Len(hist'[p])].op = op

\* C1: with valid settings and credentials on a reachable server, a CreateDB
\* for a database that does not exist returns (true, nil) and the database
\* exists afterwards; a CreateDB that follows it with the same name and
\* options returns (false, nil) and the database still exists.
C1_IdempotentCreate ==
    \A p \in Clients : \A i \in DOMAIN hist[p] :
        (Nominal(p) /\ hist[p][i].op = "CreateDB" /\ Target(p) \notin hist[p][i].pre)
        => /\ Returned(p, i, TRUE)
           /\ Target(p) \in hist[p][i].post
           /\ Successive(p, i, "CreateDB", "CreateDB")
              => Returned(p, i + 1, FALSE) /\ Target(p) \in hist[p][i + 1].post

\* two successive CreateDB on the alias "default", the database of its URL
\* being absent at first, have returned (true, nil) and (false, nil)
C1_Witness ==
    \E p \in Clients :
        /\ Nominal(p)
        /\ arg[p].name = DefaultDBAlias
        /\ Successive(p, 1, "CreateDB", "CreateDB")
        /\ "testdb" \notin hist[p][1].pre
        /\ Returned(p, 1, TRUE)
        /\ Returned(p, 2, FALSE)
        /\ "testdb" \in dbs

\* C2: DropDB for a database that does not exist returns (false, nil) and
\* leaves the databases of the server as they are; for one that exists, and
\* on which the caller holds no open pool, it returns (true, nil) and the
\* database is gone; so a second DropDB right after it returns (false, nil).
\* The database is the one named by the argument.
C2_IdempotentDrop ==
    \A p \in Clients : \A i \in DOMAIN hist[p] :
        (Nominal(p) /\ hist[p][i].op = "DropDB")
        => /\ arg[p].name \notin hist[p][i].pre
              => Returned(p, i, FALSE) /\ hist[p][i].post = hist[p][i].pre
           /\ (arg[p].name \in hist[p][i].pre /\ arg[p].name \notin hist[p][i].busy)
              => /\ Returned(p, i, TRUE)
                 /\ hist[p][i].post = hist[p][i].pre \ {arg[p].name}
                 /\ Successive(p, i, "DropDB", "DropDB") => Returned(p, i + 1, FALSE)

\* two successive DropDB of appdb, which existed, have returned (true, nil)
\* and (false, nil), and a DropDB of an absent database has returned
\* (false, nil) too
C2_Witness ==
    \E p \in Clients :
        /\ Nominal(p)
        /\ arg[p].name = "appdb"
        /\ Successive(p, 1, "DropDB", "DropDB")
        /\ "appdb" \in hist[p][1].pre
        /\ Returned(p, 1, TRUE)
        /\ Returned(p, 2, FALSE)
        /\ hist[p][2].post = hist[p][2].pre
        /\ "appdb" \notin dbs

\* C3: CreateDB and DropDB called with the same name and the same options act
\* on the same database, the alias "default" included: a DropDB right after a
\* CreateDB that succeeded returns (true, nil) and the database is gone (the
\* caller holding no open pool on it); and
\* on the alias "default", its database being absent at first, create,
\* create, drop, drop return (true, nil), (false, nil), (true, nil),
\* (false, nil).
C3_CreateDropSameDatabase ==
    \A p \in Clients :
        Nominal(p)
        => /\ \A i \in DOMAIN hist[p] :
                 ( /\ Successive(p, i, "CreateDB", "DropDB")
                   /\ hist[p][i].err = "nil"
                   /\ Target(p) \notin hist[p][i + 1].busy )
                 => Returned(p, i + 1, TRUE) /\ Target(p) \notin hist[p][i + 1].post
           /\ ( /\ arg[p].name = DefaultDBAlias
                /\ Len(hist[p]) = 4
                /\ Successive(p, 1, "CreateDB", "CreateDB")
                /\ Successive(p, 3, "DropDB", "DropDB")
                /\ Target(p) \notin hist[p][1].pre )
              => /\ Returned(p, 1, TRUE)
                 /\ Returned(p, 2, FALSE)
                 /\ Returned(p, 3, TRUE)
                 /\ Returned(p, 4, FALSE)

\* C4: with valid settings and credentials on a reachable server, EnsureDB
\* for a database that does not exist creates it and returns a pool that
\* answers a ping, created = true and no error; an EnsureDB that follows it
\* with the same name and options returns created = false, no error and a
\* pool that answers a ping as well.
C4_EnsureRoundTrip ==
    \A p \in Clients : \A i \in DOMAIN hist[p] :
        (Nominal(p) /\ hist[p][i].op = "EnsureDB" /\ Target(p) \notin hist[p][i].pre)
        => /\ Returned(p, i, TRUE)
           /\ Target(p) \in hist[p][i].post
           /\ hist[p][i].pool # 0
           /\ hist[p][i].ping = "ok"
           /\ Successive(p, i, "EnsureDB", "EnsureDB")
              => /\ Returned(p, i + 1, FALSE)
                 /\ hist[p][i + 1].pool # 0
                 /\ hist[p][i + 1].ping = "ok"

\* two successive EnsureDB of appdb, absent at first, have returned created =
\* true and created = false, each with a pool on appdb that is still open
C4_Witness ==
    \E p \in Clients :
        /\ Nominal(p)
        /\ arg[p].name = "appdb"
        /\ Successive(p, 1, "EnsureDB", "EnsureDB")
        /\ "appdb" \notin hist[p][1].pre
        /\ Returned(p, 1, TRUE)
        /\ Returned(p, 2, FALSE)
        /\ hist[p][1].pool # hist[p][2].pool
        /\ \A i \in 1..2 : hist[p][i].pool # 0
                           /\ pools[hist[p][i].pool].open
                           /\ pools[hist[p][i].pool].db = "appdb"

\* the pools that client p opened during its i-th call, of kind "admin" (by
\* connectNoDB) or "target"
PoolsOf(p, i, kind) ==
    {k \in DOMAIN pools :
        pools[k].owner = p /\ pools[k].call = i /\ pools[k].kind = kind}

\* C5: whenever the CreateDB step of EnsureDB returns an error, EnsureDB
\* returns a nil pool, that error and created = true, and the call has opened
\* no pool on the target database.
C5_EnsureCreateFails ==
    \A p \in Clients : \A i \in DOMAIN hist[p] :
        (hist[p][i].op = "EnsureDB" /\ hist[p][i].inner \notin {"none", "nil", "panic"})
        => /\ hist[p][i].pool = 0
           /\ hist[p][i].err = hist[p][i].inner
           /\ hist[p][i].flag = TRUE
           /\ PoolsOf(p, i, "target") = {}

\* an EnsureDB with an invalid password has returned the authentication error
\* of its CreateDB step with created = true, having opened the
\* administrative pool only
C5_Witness ==
    \E p \in Clients :
        /\ Len(hist[p]) = 1
        /\ hist[p][1].op = "EnsureDB"
        /\ hist[p][1].inner = "pgauth"
        /\ hist[p][1].err = "pgauth"
        /\ hist[p][1].flag
        /\ hist[p][1].pool = 0
        /\ PoolsOf(p, 1, "admin") # {}
        /\ PoolsOf(p, 1, "target") = {}

----------------------------------------------------------------------------
(* Properties of waitPing *)

\* the pool the running call of p is opening has credentials the server rejects
BadCredentials(p) ==
    ConnConfig(DBURL(call[p].s), call[p].s).Password \notin GoodPasswords

\* C6: in waitPing the first probe whose error is of SQLSTATE class 28 or 3D
\* is the last one, the immediate probe or a later one alike: waitPing is
\* neither waiting nor probing after it and open has its error.  With invalid
\* credentials on a reachable server open fails after one probe, no tick
\* having passed, with the error that matches ErrPGAuth, and so does EnsureDB.
C6_FatalProbeEndsProber ==
    \A p \in Clients :
        /\ wp[p].fatalAt # 0
           => /\ pc[p] \in {"openfail", "ret"}
              /\ wp[p].probes = wp[p].fatalAt
              /\ call[p].err \in {"pgauth", "nocat"}
        /\ (faults = 0 /\ pc[p] = "openfail" /\ BadCredentials(p))
           => /\ call[p].err = "pgauth"
              /\ wp[p].probes = 1
              /\ wp[p].elapsed = 0
        /\ \A i \in DOMAIN hist[p] :
              ( /\ faults = 0
                /\ hist[p][i].op = "EnsureDB"
                /\ Validate(Resolve(p), Resolved(p))
                /\ ConnConfig(DBURL(Resolved(p)), Resolved(p)).Password
                      \notin GoodPasswords )
              => hist[p][i].err = "pgauth" /\ hist[p][i].pool = 0

\* after an outage the server has answered a retry of waitPing with an
\* authentication error, and open has failed at that probe
C6_Witness ==
    \E p \in Clients :
        /\ pc[p] = "openfail"
        /\ wp[p].fatalAt >= 2
        /\ wp[p].probes = wp[p].fatalAt
        /\ call[p].err = "pgauth"

\* the calls op that have returned (flag, nil)
ReturnedCalls(op, flag) ==
    {c \in UNION {{<<p, i>> : i \in DOMAIN hist[p]} : p \in Clients} :
        hist[c[1]][c[2]].op = op /\ Returned(c[1], c[2], flag)}

\* op has not been called so far
NotCalled(op) ==
    \A p \in Clients :
        call[p].op # op /\ \A i \in DOMAIN hist[p] : hist[p][i].op # op

\* C15: with CreateDB calls of two clients racing for one database that is
\* absent, and no DropDB, at most one call returns (true, nil), and the
\* database exists once one has; a call whose CREATE DATABASE the server
\* rejects as a duplicate goes to its return with the server's error and
\* returns (false, that error).
C15_CreateRace ==
    /\ [](NotCalled("DropDB")
          => /\ Cardinality(ReturnedCalls("CreateDB", TRUE)) <= 1
             /\ ReturnedCalls("CreateDB", TRUE) # {} => "appdb" \in dbs)
    /\ [][\A p \in Clients :
            /\ ( /\ pc[p] = "ddl" /\ pc'[p] # "ddl"
                 /\ call[p].op = "CreateDB"
                 /\ call[p].dbName \in dbs )
               => /\ pc'[p] = "ret"
                  /\ call'[p].err = "duplicate"
                  /\ ~call'[p].flag
            /\ (pc[p] = "ret" /\ call[p].err = "duplicate"
                   /\ JustReturned(p, "CreateDB"))
               => /\ hist'[p][Len(hist'[p])].err = "duplicate"
                  /\ ~hist'[p][Len(hist'[p])].flag]_vars

\* both clients have seen appdb absent; one has created it and returned
\* (true, nil), the other has returned the duplicate error of the server
C15_Witness ==
    \E p, q \in Clients :
        /\ Len(hist[p]) = 1 /\ Len(hist[q]) = 1
        /\ hist[p][1].op = "CreateDB" /\ Returned(p, 1, TRUE)
        /\ hist[q][1].op = "CreateDB"
        /\ hist[q][1].err = "duplicate" /\ ~hist[q][1].flag
        /\ "appdb" \notin hist[q][1].pre
        /\ "appdb" \in dbs

\* C16: with DropDB calls of two clients racing for one database that
\* exists, and no CreateDB, at most one call returns (true, nil).
C16_DropRace ==
    NotCalled("CreateDB") => Cardinality(ReturnedCalls("DropDB", TRUE)) <= 1

\* C17: when the timer of the maximum wait fires in the retry loop, waitPing
\* makes one more probe and returns what it gives: nil when the server
\* answers it, so that open goes on with the pool, and otherwise the error of
\* that probe as errShouldReturn classifies it.
C17_FinalProbe ==
    [][\A p \in Clients :
          LastProbe(p)
          => IF ProbeResult(p) = "ok"
             THEN pc'[p] = "opened"
             ELSE /\ pc'[p] = "openfail"
                  /\ wp'[p].probes = wp[p].probes + 1
                  /\ call'[p].err = errShouldReturn(ProbeResult(p))[2]]_vars

\* C18: once the context of the caller is cancelled while waitPing is in its
\* retry loop, waitPing makes no further probe and waits for no tick.
C18_CancelEndsProber ==
    [][\A p \in Clients :
          (pc[p] = "wait" /\ Cancelled(p))
          => /\ ~TickProbe(p)
             /\ wp'[p].probes <= wp[p].probes
             /\ wp'[p].elapsed <= wp[p].elapsed]_vars

\* C19: when CreateDB or DropDB has returned, as a call of its own or as the
\* step of EnsureDB, whatever it returned, no pool that its connectNoDB
\* opened is open.
C19_AdminPoolClosed ==
    \A p \in Clients : \A i \in DOMAIN hist[p] :
        hist[p][i].op \in {"CreateDB", "DropDB", "EnsureDB"}
        => \A k \in PoolsOf(p, i, "admin") : ~pools[k].open

\* C13: a pool is opened with a ping timeout configured below one second
\* (zero stands for every such value): the maximum wait that waitPing uses,
\* for the deadline of its probes and for the timer of its retry loop, is
\* one second.
C13_PingTimeoutFloor ==
    \A p \in Clients :
        ( /\ pc[p] \in {"ping", "wait"}
          /\ call[p].s.PGConfig.ref # "nil"
          /\ Deref(defaultSettings, call[p].s.PGConfig).PingTimeout < Second )
        => wp[p].maxWait = Second

----------------------------------------------------------------------------
(* Properties of the Repository *)

\* a Start of p before its i-th call returned nil
StartedBefore(p, i) ==
    \E j \in 1..(i - 1) : hist[p][j].op = "Start" /\ hist[p][j].err = "nil"

\* a Stop of p before its i-th call came after a Start that returned nil
StoppedBefore(p, i) ==
    \E j \in 1..(i - 1) : hist[p][j].op = "Stop" /\ StartedBefore(p, j)

\* C7: HealthCheck returns the not-initialized error as long as no Start has
\* succeeded, returns nil after a successful Start when the server answers a
\* ping of the pool, and returns an error in every state after a Stop of the
\* started Repository.
C7_HealthCheckLifecycle ==
    \A p \in Clients : \A i \in DOMAIN hist[p] :
        hist[p][i].op = "HealthCheck"
        => /\ ~StartedBefore(p, i) => hist[p][i].err = "notinit"
           /\ (StartedBefore(p, i) /\ ~StoppedBefore(p, i) /\ hist[p][i].ping = "ok")
              => hist[p][i].err = "nil"
           /\ StoppedBefore(p, i) => hist[p][i].err # "nil"

\* C8: Stop returns nil in every state and leaves the Repository as it is; it
\* changes no pool when the Repository has none (never started, or Start
\* failed) or when its pool is closed already (stopped before); otherwise it
\* closes the pool of the Repository and no other.
C8_StopSafe ==
    [][\A p \in Clients :
          JustReturned(p, "Stop")
          => /\ hist'[p][Len(hist'[p])].err = "nil"
             /\ repo' = repo
             /\ IF repo[p].db = 0 \/ ~pools[repo[p].db].open
                THEN pools' = pools
                ELSE pools' = [pools EXCEPT ![repo[p].db].open = FALSE]]_vars

\* a Repository was stopped before any Start, started, stopped and stopped
\* again: every Stop returned nil and the pool is closed
C8_Witness ==
    \E p \in Clients :
        /\ Len(hist[p]) = 4
        /\ hist[p][1].op = "Stop" /\ hist[p][1].err = "nil" /\ hist[p][1].pool = 0
        /\ hist[p][2].op = "Start" /\ hist[p][2].err = "nil"
        /\ hist[p][3].op = "Stop" /\ hist[p][3].err = "nil"
        /\ hist[p][4].op = "Stop" /\ hist[p][4].err = "nil"
        /\ hist[p][3].pool = hist[p][2].pool
        /\ ~pools[hist[p][2].pool].open

\* C9: when a Start of a Repository that is not initialized fails, the
\* Repository is not initialized afterwards (DB() is nil and a HealthCheck
\* that follows returns the not-initialized error) and no pool opened during
\* that Start is open.
C9_FailedStartLeavesNothing ==
    \A p \in Clients : \A i \in DOMAIN hist[p] :
        (hist[p][i].op = "Start" /\ hist[p][i].err # "nil" /\ ~StartedBefore(p, i))
        => /\ i = Len(hist[p]) => repo[p].db = 0
           /\ Successive(p, i, "Start", "HealthCheck") => hist[p][i + 1].err = "notinit"
           /\ \A k \in PoolsOf(p, i, "target") : ~pools[k].open


----------------------------------------------------------------------------
(* Properties of the resolution of settings *)

\* C10: resolving an alias that is not configured gives the entry of the
\* alias "default"; when "default" is not configured either it gives the
\* empty settings, without failing, and Start, CreateDB, DropDB and EnsureDB
\* return an error for them before they would open a pool.
C10_FallbackToDefault ==
    probe.alias \notin DOMAIN probe.s.Databases
    => /\ probe.op = "DBSettingsFor"
          => /\ probe.err = "nil"
             /\ probe.r = IF DefaultDBAlias \in DOMAIN probe.s.Databases
                          THEN probe.s.Databases[DefaultDBAlias]
                          ELSE ZeroDB
       /\ (DefaultDBAlias \notin DOMAIN probe.s.Databases
           /\ probe.op \in {"Start", "CreateDB", "DropDB", "EnsureDB"})
          => probe.err # "nil" /\ ~probe.opens

\* DropDB for an alias that is not configured, "default" not being configured
\* either, has returned an error without opening a pool
C10_Witness ==
    /\ probe.alias = "other"
    /\ DOMAIN probe.s.Databases = {"appdb"}
    /\ probe.op = "DropDB"
    /\ probe.err = "config"
    /\ ~probe.opens

\* the entry of the Databases map that resolving the alias picks: its own, or
\* the one of "default", or none
Picked(s, alias) ==
    IF alias \in DOMAIN s.Databases THEN s.Databases[alias]
    ELSE MapGet(s.Databases, DefaultDBAlias)

\* C11: for every alias, configured or resolved through the fallback to
\* "default", when the entry that is picked has no pool settings of its own
\* the resolved settings hold the global pool settings.
C11_InheritsGlobalPool ==
    (probe.op = "DBSettingsFor" /\ Picked(probe.s, probe.alias).PGConfig.ref = "nil")
    => /\ probe.r.PGConfig.ref = "global"
       /\ Deref(probe.s, probe.r.PGConfig) = probe.s.PGConfig

PoolFields == {"MaxIdleConns", "MaxOpenConns", "PingTimeout", "LogLevel", "Trace"}

\* the field of the pool settings that a pool option sets
FieldOf(o) ==
    CASE o.t = "WithMaxIdleConns" -> "MaxIdleConns"
      [] o.t = "WithMaxOpenConns" -> "MaxOpenConns"
      [] o.t = "WithPingTimeout" -> "PingTimeout"
      [] o.t = "WithLogLevel" -> "LogLevel"
      [] o.t = "WithTracing" -> "Trace"

SetBy(popts) == {FieldOf(popts[i]) : i \in DOMAIN popts}

\* C12: after WithPoolSettings(popts) for an alias the resolved settings of
\* that alias hold pool settings of their own, in which every field that
\* popts does not set has its zero value, whatever the global pool settings
\* and the former entry of the alias are.
C12_OverrideReplaces ==
    probe.op = "WithPoolSettings"
    => /\ probe.r.PGConfig.ref = "own"
       /\ \A f \in PoolFields \ SetBy(probe.popts) :
              probe.r.PGConfig.val[f] = ZeroPool[f]

\* WithPoolSettings(WithMaxOpenConns(1)) on global pool settings that differ
\* from zero in every field: the resolved ones hold the limit of 1 and zeros
C12_Witness ==
    /\ probe.op = "WithPoolSettings"
    /\ probe.popts = <<WithMaxOpenConns(1)>>
    /\ probe.s.PGConfig.MaxIdleConns = 7
    /\ probe.alias = "appdb"
    /\ probe.r.PGConfig = OwnPG([ZeroPool EXCEPT !.MaxOpenConns = 1])

\* no SetDefaults has been called so far
NoSetDefaults ==
    \A p \in Clients :
        call[p].op # "SetDefaults"
        /\ \A i \in DOMAIN hist[p] : hist[p][i].op # "SetDefaults"

\* C14: as long as nobody calls SetDefaults, the package-level defaults are
\* what they were at the start whenever no call is running, whatever options
\* the calls of New made so far were given; and a New without options gets
\* the settings it would get from the defaults of the start.
C14_NoSettingsLeak ==
    NoSetDefaults
    => /\ (\A p \in Clients : pc[p] = "idle")
          => defaultSettings = InitDefaultSettings
       /\ \A q \in Clients :
             (repo[q].made /\ OptMenu[arg[q].opts] = <<>>)
             => /\ repo[q].s = DBSettingsFor(InitDefaultSettings, arg[q].name)
                /\ repo[q].s.PGConfig.ref = "global"
                   => defaultSettings.PGConfig = InitDefaultSettings.PGConfig

\* C20: every step that writes the struct defaultSettings, its Databases map
\* or the pool settings it points to is taken by the holder of defaultsMx,
\* and no two callers are about to access one of them with one of the two
\* writing.
C20_DefaultsGuarded ==
    /\ \A p \in Clients : \A a \in Access(p) : a.w => defaultsMx = p
    /\ \A p, q \in Clients : \A loc \in {"struct", "map", "pool"} :
          ~Races(p, q, loc)

----------------------------------------------------------------------------
(* Properties of the probes of waitPing *)

\* the error of the ping that the probe step of p makes, "none" when the step
\* is no probe of p
ProbeError(p) ==
    IF ImmediateProbe(p) \/ LastProbe(p) THEN ProbeResult(p)
    ELSE IF TickProbe(p) THEN TickResult(p)
    ELSE "none"

\* C21: the error of a probe is classified in the same way at the immediate
\* probe, at the probe of a tick and at the final probe: an error of SQLSTATE
\* class 28 ends waitPing with the error joined to ErrPGAuth, one of class 3D
\* ends it with the error as it is, and any other error makes waitPing wait
\* for the next tick, or, at the final probe, ends it with the error as it is.
C21_ProbeClassification ==
    [][\A p \in Clients :
          ProbeError(p) \notin {"none", "ok"}
          => CASE ProbeError(p) = "auth" ->
                      pc'[p] = "openfail" /\ call'[p].err = "pgauth"
               [] ProbeError(p) = "nocat" ->
                      pc'[p] = "openfail" /\ call'[p].err = "nocat"
               [] OTHER ->
                      IF LastProbe(p)
                      THEN pc'[p] = "openfail" /\ call'[p].err = ProbeError(p)
                      ELSE pc'[p] = "wait" /\ call'[p] = call[p]]_vars

\* waitPing has ended at its final probe, after retries that each failed with
\* a transient error, and open has the error of that probe
C21_Witness ==
    \E p \in Clients :
        /\ pc[p] = "openfail"
        /\ wp[p].probes >= 3
        /\ wp[p].elapsed = wp[p].maxWait
        /\ wp[p].fatalAt = 0
        /\ call[p].err = "transient"

----------------------------------------------------------------------------
(* Properties of the steps of CreateDB and DropDB *)

\* client p is in a call of CreateDB or DropDB, as a call of its own or as
\* the step of EnsureDB
Provisioning(p) == call[p].op \in {"CreateDB", "DropDB"}

\* the order of the steps of the call of p up to the statement, and what
\* follows a step that failed
ProvStepsInOrder(p) ==
    \* the transaction begins on the pool that the connect has just returned
    /\ BeginTx(p) => /\ pools[call[p].pool].open /\ pools[call[p].pool].conn
                     /\ call'[p].admin = call[p].pool
    \* the existence check runs in the transaction that has begun
    /\ Exists(p) => call[p].tx = "open" /\ call[p].err = "nil"
    \* the statement follows an existence check without error that reported
    \* absent to CreateDB, present to DropDB
    /\ (pc'[p] = "ddl" /\ pc[p] # "ddl")
       => /\ Exists(p)
          /\ call'[p].err = "nil"
          /\ call[p].op = "CreateDB" => call[p].dbName \notin dbs
          /\ call[p].op = "DropDB" => call[p].dbName \in dbs
    /\ ExecDDL(p) => call[p].tx = "open" /\ pools[call[p].admin].open
    \* Commit follows a statement that succeeded
    /\ (pc'[p] = "commit" /\ pc[p] # "commit")
       => /\ ExecDDL(p)
          /\ call'[p].err = "nil"
          /\ call[p].op = "CreateDB" => call[p].dbName \in dbs'
          /\ call[p].op = "DropDB" => call[p].dbName \notin dbs'
    \* from the transaction to the release the pool is the same, and the
    \* release closes that pool
    /\ (Exists(p) \/ ExecDDL(p) \/ Commit(p)) => call'[p].admin = call[p].admin
    /\ ProvReturn(p) => pools' = ClosePool(pools, call[p].admin)
    \* a step that fails is followed by the return
    /\ ( /\ BeginTx(p) \/ Exists(p) \/ ExecDDL(p) \/ Commit(p)
         /\ call'[p].err # "nil" )
       => pc'[p] = "ret"
    /\ pc[p] = "ret"
       => ~(Open(p) \/ BeginTx(p) \/ Exists(p) \/ ExecDDL(p) \/ Commit(p))

\* the transaction of p is committed in this step
Commits(p) == call'[p].tx = "committed" /\ call[p].tx # "committed"

\* C22: within one CreateDB or DropDB call the steps run in the order
\* connect, begin transaction, existence check, statement, commit, release,
\* on one administrative pool: the statement follows an existence check
\* without error that reported absent (create) or present (drop), and no
\* later step but the release follows a failed one.  The transaction is
\* committed after the statement succeeded, and also, without any statement,
\* by a CreateDB whose existence check reported the database present.
C22_StepOrder ==
    [][\A p \in Clients :
          Provisioning(p)
          => /\ ProvStepsInOrder(p)
             /\ Commits(p)
                => \/ Commit(p)
                   \/ /\ Exists(p)
                      /\ call[p].op = "CreateDB"
                      /\ call[p].dbName \in dbs
                /\ pc'[p] = "ret"]_vars

\* C22 as the claim states it: the transaction is committed only after the
\* statement succeeded.
C22_CommitOnlyAfterDDL ==
    [][\A p \in Clients :
          Provisioning(p)
          => /\ ProvStepsInOrder(p)
             /\ Commits(p) => Commit(p)]_vars

\* a CreateDB of a database that exists is about to return (false, nil): its
\* transaction is committed and it has run no statement
C22_Witness ==
    \E p \in Clients :
        /\ pc[p] = "ret"
        /\ call[p].op = "CreateDB"
        /\ call[p].tx = "committed"
        /\ ~call[p].flag
        /\ call[p].err = "nil"
        /\ call[p].dbName \in call[p].pre
        /\ dbs = call[p].pre
        /\ pools[call[p].admin].open

\* C23: a CreateDB for a name whose resolved URL is empty returns (false,
\* configuration error), and the call has opened no pool and left the
\* databases as they were; and whenever CreateDB or DropDB returns an error,
\* as a call of its own or as the step of EnsureDB, its boolean is false.
C23_ErrorMeansFalse ==
    \A p \in Clients :
        /\ (pc[p] = "ret" /\ Provisioning(p) /\ call[p].err # "nil") => ~call[p].flag
        /\ \A i \in DOMAIN hist[p] :
              /\ ( /\ hist[p][i].op \in {"CreateDB", "DropDB"}
                   /\ hist[p][i].err \notin {"nil", "panic"} )
                 => ~hist[p][i].flag
              /\ (hist[p][i].op = "CreateDB" /\ Resolved(p).URL = EmptyURL)
                 => /\ hist[p][i].err = "config"
                    /\ ~hist[p][i].flag
                    /\ PoolsOf(p, i, "admin") \cup PoolsOf(p, i, "target") = {}
                    /\ hist[p][i].post = hist[p][i].pre

\* a CreateDB for an alias that resolves to an empty URL has returned (false,
\* configuration error) and no pool was opened
C23_Witness ==
    \E p \in Clients :
        /\ Len(hist[p]) = 1
        /\ hist[p][1].op = "CreateDB"
        /\ arg[p].name = "appdb"
        /\ Resolved(p).URL = EmptyURL
        /\ hist[p][1].err = "config"
        /\ ~hist[p][1].flag
        /\ pools = <<>>

----------------------------------------------------------------------------
(* Properties of the lifecycle of the Repository *)

\* C24: the state stopped is terminal: once a Stop has closed the pool of a
\* started Repository, no HealthCheck of it returns nil and no call of it
\* opens a pool, whatever Start, Stop and HealthCheck calls follow.
C24_StoppedIsTerminal ==
    \A p \in Clients : \A i \in DOMAIN hist[p] :
        StoppedBefore(p, i)
        => /\ hist[p][i].op = "HealthCheck" => hist[p][i].err # "nil"
           /\ PoolsOf(p, i, "target") = {}

\* C25: for a Repository that New built for any alias, configured or resolved
\* through the fallback, and that was started and not stopped since,
\* HealthCheck returns: nil when a ping of the pool succeeds, and the error
\* of the ping otherwise; it never panics.
C25_HealthCheckReturns ==
    \A p \in Clients : \A i \in DOMAIN hist[p] :
        (hist[p][i].op = "HealthCheck" /\ StartedBefore(p, i) /\ ~StoppedBefore(p, i))
        => /\ hist[p][i].err # "panic"
           /\ hist[p][i].err = IF hist[p][i].ping = "ok" THEN "nil"
                               ELSE hist[p][i].ping

\* the Repository of p has pool settings with a ping timeout below one second
ShortPingTimeout(p) ==
    /\ repo[p].s.PGConfig.ref # "nil"
    /\ Deref(defaultSettings, repo[p].s.PGConfig).PingTimeout < Second

\* C26: a ping timeout configured below one second is raised to the floor
\* wherever it is used: the probes of Start wait for one second at least,
\* and the HealthCheck of a Repository that was started with such a timeout
\* (zero, when a pool override of the alias sets none) returns nil whenever
\* the server answers the ping.
C26_FloorAtEveryUse ==
    \A p \in Clients :
        ShortPingTimeout(p)
        => /\ (call[p].op = "Start" /\ pc[p] \in {"ping", "wait"})
              => wp[p].maxWait >= Second
           /\ \A i \in DOMAIN hist[p] :
                 ( /\ hist[p][i].op = "HealthCheck"
                   /\ StartedBefore(p, i) /\ ~StoppedBefore(p, i)
                   /\ hist[p][i].ping = "ok" )
                 => hist[p][i].err = "nil"

----------------------------------------------------------------------------
(* Properties of the deadlines and of the end of waitPing *)

\* C27: every probe of a call of waitPing, the immediate one, the one of a
\* tick and the final one, runs under the deadline set at the entry, the
\* maximum wait later: the deadline of the context of the latest probe is
\* never later than that.
C27_SingleDeadline ==
    \A p \in Clients : wp[p].probes > 0 => wp[p].deadline = wp[p].maxWait

\* waitPing is running for the call of p
InWaitPing(p) == pc[p] \in {"ping", "wait"}

\* C28: waitPing always returns: a call that is in waitPing gets to the point
\* where open has its result, nil or the error; it makes the immediate
\* probe, then one probe per tick at most while the maximum wait lasts, then
\* one final probe at most; and after a probe that succeeded or whose error
\* is of class 28 or 3D it makes no other.
C28_WaitPingReturns ==
    /\ [](\A p \in Clients :
             /\ wp[p].probes <= 1 + wp[p].elapsed + 1
             /\ wp[p].elapsed <= wp[p].maxWait
             /\ pc[p] = "opened" => ~InWaitPing(p)
             /\ wp[p].fatalAt # 0 => wp[p].probes = wp[p].fatalAt /\ ~InWaitPing(p))
    /\ \A p \in {1} : InWaitPing(p) ~> pc[p] \in {"opened", "openfail"}

\* the pools that the calls of the Repository of p have opened and that are
\* open
OpenPoolsOf(p) ==
    {k \in DOMAIN pools : pools[k].owner = p /\ pools[k].kind = "target"
                          /\ pools[k].open}

\* C29: a Repository does not lose track of an open pool: between its calls
\* every open pool that it has opened is the one it holds, so that after a
\* Stop, which closes that one, none of its pools is open, a second Start of
\* a started Repository included.
C29_NoPoolLost ==
    \A p \in Clients :
        pc[p] = "idle"
        => /\ OpenPoolsOf(p) \subseteq {repo[p].db}
           /\ (hist[p] # <<>> /\ hist[p][Len(hist[p])].op = "Stop")
              => OpenPoolsOf(p) = {}

\* C30: a CreateDB of a database that is absent and a DropDB of one that
\* exists return, the context of the caller not being cancelled, whatever
\* the size of the pool, MaxOpenConns = 1 included: once the call is at its
\* statement, which it runs on the pool while the transaction of the
\* existence check holds a connection, it gets to its return.
C30_DDLNotBlocked ==
    \A p \in {1} : (Provisioning(p) /\ pc[p] = "ddl") ~> pc[p] = "ret"

----------------------------------------------------------------------------
(* Properties of the target pool of EnsureDB *)

\* C31: whenever EnsureDB succeeds, the pool it returns is connected to the
\* database that its CreateDB step has checked or created: the database of
\* the name passed, for a name other than "default", and the one of the path
\* of the URL for the alias "default"; and that database exists as the call
\* returns.
C31_PoolOnEnsuredDatabase ==
    \A p \in Clients :
        /\ (pc[p] = "opened" /\ call[p].op = "EnsureDB")
           => /\ pools[call[p].pool].db = call[p].dbName
              /\ call[p].dbName = Target(p)
        /\ \A i \in DOMAIN hist[p] :
              (hist[p][i].op = "EnsureDB" /\ hist[p][i].err = "nil")
              => /\ hist[p][i].pool # 0
                 /\ pools[hist[p][i].pool].db = Target(p)
                 /\ Target(p) \in hist[p][i].post

\* an EnsureDB on the alias "default" has created the database of the path of
\* its URL and returned a pool on that database
C31_Witness ==
    \E p \in Clients :
        /\ arg[p].name = DefaultDBAlias
        /\ hist[p] # <<>>
        /\ hist[p][1].op = "EnsureDB"
        /\ Returned(p, 1, TRUE)
        /\ "testdb" \notin hist[p][1].pre
        /\ pools[hist[p][1].pool].db = "testdb"
        /\ pools[hist[p][1].pool].kind = "target"

\* C32: when the CreateDB step of EnsureDB has succeeded and open on the
\* target database fails, EnsureDB returns no pool, the error, and created as
\* CreateDB reported it, true when the database was absent before the call
\* and false when it was there; the database exists after the call.
C32_OpenFailsAfterCreate ==
    \A p \in Clients : \A i \in DOMAIN hist[p] :
        ( /\ hist[p][i].op = "EnsureDB"
          /\ hist[p][i].inner = "nil"
          /\ hist[p][i].err \notin {"nil", "panic"} )
        => /\ hist[p][i].pool = 0
           /\ hist[p][i].flag = (Target(p) \notin hist[p][i].pre)
           /\ Target(p) \in hist[p][i].post

\* an EnsureDB has created appdb, the server has then been unreachable for
\* the whole wait of open, and EnsureDB has returned that error with created
\* = true and no pool; appdb exists
C32_Witness ==
    \E p \in Clients :
        /\ Len(hist[p]) = 1
        /\ hist[p][1].op = "EnsureDB"
        /\ hist[p][1].inner = "nil"
        /\ hist[p][1].err = "transient"
        /\ hist[p][1].flag
        /\ hist[p][1].pool = 0
        /\ "appdb" \notin hist[p][1].pre
        /\ "appdb" \in dbs
        /\ PoolsOf(p, 1, "target") # {}

----------------------------------------------------------------------------
(* Properties of WithDatabaseSettings *)

\* C33: WithDatabaseSettings(alias, opts) replaces the entry of the alias by
\* the settings of the package-level alias "default" with opts applied: a
\* field that opts does not set, the URL for one, has the value of the
\* package-level "default" entry, and not the value that an earlier option of
\* the same call gave to the alias.
C33_EntryReplaced ==
    probe.op = "WithDatabaseSettings"
    => probe.r = [MapGet(probe.s.Databases, DefaultDBAlias) EXCEPT
                     !.PGConfig = OwnPG(ApplyPoolOptions(ZeroPool, probe.popts))]

====
